---- MODULE Spec2Model ----
(***************************************************************************)
(* Columnar transforms of cudf: prefix scan (cudf::scan), null-aware row   *)
(* filter (cudf::drop_nulls) and string <-> integer conversion             *)
(* (cudf::strings::to_integers / from_integers).                           *)
(*                                                                         *)
(* A column is a record [type, data, nullable, valid]; data and valid are  *)
(* sequences indexed 1..size (source index i is model index i+1).  A       *)
(* column without a validity mask has nullable = FALSE.  The data stored   *)
(* at a null position is arbitrary.                                        *)
(***************************************************************************)
EXTENDS Integers, Sequences, FiniteSets, TLC

VARIABLES
  in_col,      \* scan: the input column_view
  scan_out,    \* scan: outcome of the last cudf::detail::scan call
  dn_input,    \* drop_nulls: rows of the input table
  dn_keys,     \* drop_nulls: the key table
  dn_out,      \* drop_nulls: outcome of the last call
  integers,    \* convert: integer column given to from_integers
  strings,     \* convert: strings column (input of to_integers)
  results,     \* convert: column returned by to_integers
  conv_pc,     \* convert: which conversions have run
  work,        \* the caller's stream and the device work the last call issued
  builder,     \* ParquetWriterOptions.Builder under construction
  options,     \* the ParquetWriterOptions that build() returned
  fi           \* from_integers, statement by statement: progress of one call

vars == <<in_col, scan_out, dn_input, dn_keys, dn_out, integers, strings, results, conv_pc,
          work, builder, options, fi>>

scanVars == <<in_col, scan_out>>
dropVars == <<dn_input, dn_keys, dn_out>>
convVars == <<integers, strings, results, conv_pc>>
javaVars == <<builder, options>>

(***************************************************************************)
(* Bounds of the model.                                                    *)
(***************************************************************************)
MaxLen  == 3   \* longest column given to scan
MaxRows == 2   \* most rows of a table given to drop_nulls
MaxCols == 2   \* most key columns given to drop_nulls
MaxInts == 2   \* longest column given to from_integers

(***************************************************************************)
(* Helpers over sequences.                                                 *)
(***************************************************************************)
SeqsUpTo(S, n) == UNION {[1..k -> S] : k \in 0..n}

AllTrue(n) == [i \in 1..n |-> TRUE]

RECURSIVE CountFalse(_)
CountFalse(v) ==
  IF v = <<>> THEN 0
  ELSE (IF Head(v) THEN 0 ELSE 1) + CountFalse(Tail(v))

(***************************************************************************)
(* Element types.  INT8 stands for the arithmetic types (its arithmetic    *)
(* wraps at 8 bits); DECIMAL32 is a fixed-point type whose storage type is *)
(* int32_t; STRING is the string type; LIST is a compound type that is not *)
(* a string; TIMESTAMP is neither numeric, compound nor fixed-point.       *)
(***************************************************************************)
Types == {"INT8", "DECIMAL32", "STRING", "LIST", "TIMESTAMP"}

is_numeric(t)     == t = "INT8"
is_compound(t)    == t \in {"STRING", "LIST"}
is_fixed_point(t) == t = "DECIMAL32"

\* storage type chosen by type_dispatcher<dispatch_storage_type>
dispatch_storage_type(t) == IF t = "DECIMAL32" THEN "int32_t"
                            ELSE IF t = "INT8" THEN "int8_t"
                            ELSE IF t = "STRING" THEN "string_view"
                            ELSE "other"

is_arithmetic(T) == T \in {"int8_t", "int32_t"}

INT8_MAX  == 127
INT8_MIN  == -128
INT32_MAX == 2147483647

numeric_max(T)    == IF T = "int8_t" THEN INT8_MAX ELSE INT32_MAX
numeric_lowest(T) == IF T = "int8_t" THEN INT8_MIN ELSE (-INT32_MAX) - 1

\* conversion of an int result to the storage type T (two's complement)
Narrow(v, T) ==
  IF v >= numeric_lowest(T) /\ v <= numeric_max(T) THEN v
  ELSE ((v - numeric_lowest(T)) % (numeric_max(T) - numeric_lowest(T) + 1))
         + numeric_lowest(T)

\* string_view::max(): the largest UTF-8 code point, F7 BF BF BF
string_max == <<247, 191, 191, 191>>
\* string_view::min(): the empty string
string_min == <<>>

RECURSIVE LexLess(_, _)
LexLess(a, b) ==
  IF b = <<>> THEN FALSE
  ELSE IF a = <<>> THEN TRUE
  ELSE IF Head(a) # Head(b) THEN Head(a) < Head(b)
  ELSE LexLess(Tail(a), Tail(b))

Less(T, a, b) == IF T = "string_view" THEN LexLess(a, b) ELSE a < b

Ops == {"SUM", "MIN", "MAX", "PRODUCT"}

\* Op::identity<T>()
identity(op, T) ==
  IF op = "SUM" THEN 0
  ELSE IF op = "PRODUCT" THEN 1
  ELSE IF op = "MIN" THEN (IF T = "string_view" THEN string_max ELSE numeric_max(T))
  ELSE (IF T = "string_view" THEN string_min ELSE numeric_lowest(T))

\* Op{}(lhs, rhs)
Apply(op, T, a, b) ==
  IF op = "SUM" THEN Narrow(a + b, T)
  ELSE IF op = "PRODUCT" THEN Narrow(a * b, T)
  ELSE IF op = "MIN" THEN (IF Less(T, b, a) THEN b ELSE a)
  ELSE (IF Less(T, a, b) THEN b ELSE a)

(***************************************************************************)
(* column_view accessors.                                                  *)
(***************************************************************************)
size(col)       == Len(col.data)
null_count(col) == IF col.nullable THEN CountFalse(col.valid) ELSE 0
has_nulls(col)  == null_count(col) > 0
is_valid(col, i) == (~col.nullable) \/ col.valid[i]

\* make_null_replacement_iterator(col, null_replacement, has_nulls)
make_null_replacement_iterator(col, repl, hasnulls) ==
  [i \in 1..size(col) |->
     IF hasnulls /\ ~col.valid[i] THEN repl ELSE col.data[i]]

\* thrust::exclusive_scan(first, last, result, init, op), left to right
RECURSIVE ExclusiveRun(_, _, _, _)
ExclusiveRun(s, acc, op, T) ==
  IF s = <<>> THEN <<>>
  ELSE <<acc>> \o ExclusiveRun(Tail(s), Apply(op, T, acc, Head(s)), op, T)

thrust_exclusive_scan(s, init, op, T) == ExclusiveRun(s, init, op, T)

\* thrust::inclusive_scan(first, last, result, op), left to right
RECURSIVE InclusiveRun(_, _, _, _)
InclusiveRun(s, acc, op, T) ==
  IF s = <<>> THEN <<>>
  ELSE LET nxt == Apply(op, T, acc, Head(s))
       IN  <<nxt>> \o InclusiveRun(Tail(s), nxt, op, T)

thrust_inclusive_scan(s, op, T) ==
  IF s = <<>> THEN <<>> ELSE <<Head(s)>> \o InclusiveRun(Tail(s), Head(s), op, T)

(***************************************************************************)
(* cudf::detail::scan and scan_dispatcher<Op>.                             *)
(***************************************************************************)
UNKNOWN_NULL_COUNT == -1

Aggs          == Ops \cup {"MEAN"}
ScanTypes     == {"INCLUSIVE", "EXCLUSIVE"}
NullPolicies  == {"INCLUDE", "EXCLUDE"}

\* What a failed call leaves behind: no column; dispatched tells whether
\* type_dispatcher had been entered, allocated whether an output or
\* scratch buffer had been allocated, scanned whether a thrust scan ran.
ScanError(msg, dispatched) ==
  [status |-> "error", error |-> msg, dispatched |-> dispatched,
   allocated |-> FALSE, scanned |-> FALSE,
   data |-> <<>>, nullable |-> FALSE, valid |-> <<>>, null_count |-> 0]

ScanColumn(data, nullable, valid, nc) ==
  [status |-> "ok", error |-> "", dispatched |-> TRUE,
   allocated |-> TRUE, scanned |-> TRUE,
   data |-> data, nullable |-> nullable, valid |-> valid, null_count |-> nc]

\* column::null_count(): an UNKNOWN count is computed from the mask
column_null_count(c) ==
  IF c.null_count = UNKNOWN_NULL_COUNT
    THEN (IF c.nullable THEN CountFalse(c.valid) ELSE 0)
    ELSE c.null_count

\* is_valid of an output column
out_valid(c, i) == (~c.nullable) \/ c.valid[i]

is_string_supported(op, T) == T = "string_view" /\ op \in {"MIN", "MAX"}

is_supported(op, T) ==
  is_arithmetic(T) \/ is_string_supported(op, T)

\* cudf::set_null_mask(bitmask, begin_bit, end_bit, valid), 0-based bits
set_null_mask(mask, begin, end, v) ==
  [i \in 1..Len(mask) |-> IF begin <= i - 1 /\ i - 1 < end THEN v ELSE mask[i]]

\* thrust::find_if_not(v, v + size, identity) - v
find_if_not_true(valid) ==
  IF \E i \in 1..Len(valid) : ~valid[i]
    THEN (CHOOSE i \in 1..Len(valid) :
            ~valid[i] /\ \A j \in 1..(i - 1) : valid[j]) - 1
    ELSE Len(valid)

\* the mask starts UNINITIALIZED: every bit holds `garbage`
mask_inclusive_scan_late(col, garbage) ==
  LET mask == [i \in 1..size(col) |-> garbage]
      first_null_position == find_if_not_true(col.valid)
      m1 == set_null_mask(mask, 0, first_null_position, TRUE)
  IN  set_null_mask(m1, first_null_position + 1, size(col), FALSE)
mask_inclusive_scan(col, garbage) ==
  LET mask == [i \in 1..size(col) |-> garbage]
      first_null_position == find_if_not_true(col.valid)
      m1 == set_null_mask(mask, 0, first_null_position, TRUE)
  IN  set_null_mask(m1, first_null_position, size(col), FALSE)

\* exclusive_scan<T>, arithmetic T
exclusive_scan_zero_init(col, op, T, null_handling) ==
  LET input == make_null_replacement_iterator(col, identity(op, T), has_nulls(col))
      data  == thrust_exclusive_scan(input, 0, op, T)
  IN  IF null_handling = "EXCLUDE"
        THEN ScanColumn(data, col.nullable, col.valid, null_count(col))
        ELSE ScanColumn(data, FALSE, AllTrue(size(col)), 0)
exclusive_scan_nomask(col, op, T, null_handling) ==
  LET input == make_null_replacement_iterator(col, identity(op, T), has_nulls(col))
      data  == thrust_exclusive_scan(input, identity(op, T), op, T)
  IN  ScanColumn(data, FALSE, AllTrue(size(col)), 0)
exclusive_scan(col, op, T, null_handling) ==
  LET input == make_null_replacement_iterator(col, identity(op, T), has_nulls(col))
      data  == thrust_exclusive_scan(input, identity(op, T), op, T)
  IN  IF null_handling = "EXCLUDE"
        THEN ScanColumn(data, col.nullable, col.valid, null_count(col))
        ELSE ScanColumn(data, FALSE, AllTrue(size(col)), 0)

\* inclusive_scan<T>, arithmetic T and string_view
inclusive_scan_raw_input(col, op, T, null_handling, garbage) ==
  LET input == make_null_replacement_iterator(col, identity(op, T), FALSE)
      data  == thrust_inclusive_scan(input, op, T)
  IN  IF null_handling = "EXCLUDE"
        THEN ScanColumn(data, col.nullable, col.valid, null_count(col))
        ELSE IF col.nullable
          THEN ScanColumn(data, TRUE, mask_inclusive_scan(col, garbage),
                          UNKNOWN_NULL_COUNT)
          ELSE ScanColumn(data, FALSE, AllTrue(size(col)), 0)
inclusive_scan(col, op, T, null_handling, garbage) ==
  LET input == make_null_replacement_iterator(col, identity(op, T), has_nulls(col))
      data  == thrust_inclusive_scan(input, op, T)
  IN  IF null_handling = "EXCLUDE"
        THEN ScanColumn(data, col.nullable, col.valid, null_count(col))
        ELSE IF col.nullable
          THEN ScanColumn(data, TRUE, mask_inclusive_scan(col, garbage),
                          UNKNOWN_NULL_COUNT)
          ELSE ScanColumn(data, FALSE, AllTrue(size(col)), 0)

\* scan_dispatcher<Op>::operator()<T>
scan_dispatcher_no_string_fail(op, T, col, inclusive, null_handling, garbage) ==
  IF ~is_supported(op, T)
    THEN ScanError("Non-arithmetic types not supported for cudf::scan", TRUE)
  ELSE IF inclusive = "INCLUSIVE"
    THEN inclusive_scan(col, op, T, null_handling, garbage)
    ELSE exclusive_scan(col, op, T, null_handling)
scan_dispatcher(op, T, col, inclusive, null_handling, garbage) ==
  IF ~is_supported(op, T)
    THEN ScanError("Non-arithmetic types not supported for cudf::scan", TRUE)
  ELSE IF inclusive = "EXCLUSIVE" /\ ~is_arithmetic(T)
    THEN ScanError("String types supports only inclusive min/max for cudf::scan", TRUE)
  ELSE LET output == IF inclusive = "INCLUSIVE"
                       THEN inclusive_scan(col, op, T, null_handling, garbage)
                       ELSE exclusive_scan(col, op, T, null_handling)
       IN  IF null_handling = "EXCLUDE" /\ null_count(col) # column_null_count(output)
             THEN [ScanError("Input / output column null count mismatch", TRUE)
                     EXCEPT !.allocated = TRUE, !.scanned = TRUE]
             ELSE output

\* cudf::detail::scan
scan_no_decimal_check(col, agg, inclusive, null_handling, garbage) ==
  IF ~(is_numeric(col.type) \/ is_compound(col.type) \/ is_fixed_point(col.type))
    THEN ScanError("Unexpected non-numeric or non-string type.", FALSE)
  ELSE IF agg \in Ops
    THEN scan_dispatcher(agg, dispatch_storage_type(col.type), col,
                         inclusive, null_handling, garbage)
  ELSE ScanError("Unsupported aggregation operator for scan", FALSE)
scan(col, agg, inclusive, null_handling, garbage) ==
  IF ~(is_numeric(col.type) \/ is_compound(col.type) \/ is_fixed_point(col.type))
    THEN ScanError("Unexpected non-numeric or non-string type.", FALSE)
  ELSE IF agg \in {"SUM", "MIN", "MAX"}
    THEN scan_dispatcher(agg, dispatch_storage_type(col.type), col,
                         inclusive, null_handling, garbage)
  ELSE IF agg = "PRODUCT"
    THEN IF is_fixed_point(col.type)
           THEN ScanError("decimal32/64 cannot support product scan", FALSE)
           ELSE scan_dispatcher(agg, dispatch_storage_type(col.type), col,
                                inclusive, null_handling, garbage)
  ELSE ScanError("Unsupported aggregation operator for scan", FALSE)

(***************************************************************************)
(* Streams.  Every device operation is issued on one CUDA stream; `work`   *)
(* records the stream the caller passed and, for each operation the call   *)
(* issued, the stream it was issued on.                                    *)
(***************************************************************************)
DEFAULT_STREAM == 0                     \* rmm::cuda_stream_default, stream 0
Streams == {DEFAULT_STREAM, 1}          \* the default stream and another one

On(what, stream) == [what |-> what, stream |-> stream]
Issued(stream, items) == [stream |-> stream, issued |-> items]
NoWork == Issued(DEFAULT_STREAM, {})

\* mask_inclusive_scan: cudf::set_null_mask is called without a stream
mask_inclusive_scan_work(stream) ==
  { On("create_null_mask", stream), On("column_device_view::create", stream),
    On("find_if_not", stream), On("set_null_mask", DEFAULT_STREAM) }

\* exclusive_scan<T>, arithmetic T
exclusive_scan_work(null_handling, stream) ==
  { On("allocate_like", stream), On("column_device_view::create", stream),
    On("exclusive_scan", stream) }
  \cup (IF null_handling = "EXCLUDE" THEN {On("copy_bitmask", stream)} ELSE {})

\* inclusive_scan<T>, arithmetic T and string_view
inclusive_scan_work(col, T, null_handling, stream) ==
  { IF T = "string_view" THEN On("device_uvector", stream)
                         ELSE On("allocate_like", stream),
    On("column_device_view::create", stream), On("inclusive_scan", stream) }
  \cup (IF T = "string_view" THEN {On("make_strings_column", stream)} ELSE {})
  \cup (IF null_handling = "EXCLUDE" THEN {On("copy_bitmask", stream)}
        ELSE IF col.nullable THEN mask_inclusive_scan_work(stream)
        ELSE {})

\* scan_dispatcher<Op>::operator()<T>
scan_dispatcher_work(op, T, col, inclusive, null_handling, stream) ==
  IF ~is_supported(op, T) THEN {}
  ELSE IF inclusive = "EXCLUSIVE" /\ ~is_arithmetic(T) THEN {}
  ELSE IF inclusive = "INCLUSIVE"
    THEN inclusive_scan_work(col, T, null_handling, stream)
    ELSE exclusive_scan_work(null_handling, stream)

\* cudf::detail::scan
scan_work(col, agg, inclusive, null_handling, stream) ==
  IF ~(is_numeric(col.type) \/ is_compound(col.type) \/ is_fixed_point(col.type))
    THEN {}
  ELSE IF agg \in {"SUM", "MIN", "MAX"}
         \/ (agg = "PRODUCT" /\ ~is_fixed_point(col.type))
    THEN scan_dispatcher_work(agg, dispatch_storage_type(col.type), col,
                              inclusive, null_handling, stream)
  ELSE {}

(***************************************************************************)
(* Inputs of scan.  A behaviour is one call: the input is read-only and   *)
(* the outcome depends on nothing but the input and the arguments.        *)
(***************************************************************************)
Int8Values    == {-128, -1, 2, 127}
DecimalValues == {-3, 0, 5}
StringValues  == {<<>>, <<97>>, <<97, 98>>}

ValuesOf(t) == IF t = "INT8" THEN Int8Values
               ELSE IF t = "DECIMAL32" THEN DecimalValues
               ELSE IF t = "STRING" THEN StringValues
               ELSE {0}

ColumnsOf(t, n) ==
  UNION { { [type |-> t, data |-> d, nullable |-> FALSE, valid |-> AllTrue(Len(d))] }
          \cup { [type |-> t, data |-> d, nullable |-> TRUE, valid |-> v] :
                   v \in [1..Len(d) -> BOOLEAN] }
          : d \in SeqsUpTo(ValuesOf(t), n) }

NoCall == [status |-> "none"]

ScanCall(agg, inclusive, null_handling) ==
  [agg |-> agg, inclusive |-> inclusive, null_handling |-> null_handling]

\* one call of cudf::detail::scan on the input column
Scan ==
  /\ scan_out = NoCall
  /\ \E agg \in Aggs, inclusive \in ScanTypes, nh \in NullPolicies, garbage \in BOOLEAN :
       /\ scan_out' = [status |-> "called",
                       call   |-> ScanCall(agg, inclusive, nh),
                       result |-> scan(in_col, agg, inclusive, nh, garbage)]
       /\ \E stream \in Streams :
            work' = Issued(stream, scan_work(in_col, agg, inclusive, nh, stream))
  /\ UNCHANGED <<in_col, dropVars, convVars, javaVars, fi>>

(***************************************************************************)
(* cudf::drop_nulls.  The input table is the sequence of its rows.  A key  *)
(* column is [nullable, mask]: its validity mask is stored in whole words, *)
(* so mask holds MaxRows bits of which only the first num_rows describe  *)
(* rows of the column; the bits after them are whatever the buffer holds.  *)
(***************************************************************************)
DropIf    == {"ANY", "ALL"}
RowValues == {"a", "b"}

KeyColumns ==
  {[nullable |-> FALSE, mask |-> AllTrue(MaxRows)]}
    \cup {[nullable |-> TRUE, mask |-> m] : m \in [1..MaxRows -> BOOLEAN]}

\* a table without columns has no rows
KeyTables ==
  {[num_rows |-> 0, cols |-> <<>>]}
    \cup {[num_rows |-> n, cols |-> c] :
            n \in 0..MaxRows, c \in (SeqsUpTo(KeyColumns, MaxCols) \ {<<>>})}

num_columns(t) == Len(t.cols)

\* gdf_column::null_count of a key column
key_null_count(t, c) ==
  IF t.cols[c].nullable
    THEN Cardinality({i \in 1..t.num_rows : ~t.cols[c].mask[i]})
    ELSE 0

\* cudf::has_nulls(table)
table_has_nulls(t) == \E c \in 1..num_columns(t) : key_null_count(t, c) > 0

\* valid_table_filter::operator()(i), i 0-based
valid_table_filter(keys, drop_if, i) ==
  LET valid(c) == (~keys.cols[c].nullable) \/ keys.cols[c].mask[i + 1]
  IN  IF drop_if = "ALL"
        THEN \E c \in 1..num_columns(keys) : valid(c)
        ELSE \A c \in 1..num_columns(keys) : valid(c)

\* detail::copy_if(input, filter): stable compaction of the rows of input
\* whose index satisfies the filter
RECURSIVE CopyIfFrom(_, _, _, _)
CopyIfFrom(rows, i, keys, drop_if) ==
  IF i >= Len(rows) THEN <<>>
  ELSE (IF valid_table_filter(keys, drop_if, i) THEN <<rows[i + 1]>> ELSE <<>>)
         \o CopyIfFrom(rows, i + 1, keys, drop_if)

copy_if(rows, keys, drop_if) == CopyIfFrom(rows, 0, keys, drop_if)

\* cudf::copy(input)
copy(rows) == rows

DropResult(status, error, rows, filter_built) ==
  [status |-> status, error |-> error, rows |-> rows, filter_built |-> filter_built]

\* cudf::drop_nulls(input, keys, drop_if)
drop_nulls_no_shortcut(input, keys, drop_if) ==
  IF num_columns(keys) = 0 \/ keys.num_rows = 0
    THEN DropResult("ok", "", copy(input), FALSE)
  ELSE IF ~(keys.num_rows <= Len(input))
    THEN DropResult("error", "Column size mismatch", <<>>, FALSE)
  ELSE DropResult("ok", "", copy_if(input, keys, drop_if), TRUE)
drop_nulls_no_check(input, keys, drop_if) ==
  IF num_columns(keys) = 0 \/ keys.num_rows = 0 \/ ~table_has_nulls(keys)
    THEN DropResult("ok", "", copy(input), FALSE)
  ELSE DropResult("ok", "", copy_if(input, keys, drop_if), TRUE)
drop_nulls(input, keys, drop_if) ==
  IF num_columns(keys) = 0 \/ keys.num_rows = 0 \/ ~table_has_nulls(keys)
    THEN DropResult("ok", "", copy(input), FALSE)
  ELSE IF ~(keys.num_rows <= Len(input))
    THEN DropResult("error", "Column size mismatch", <<>>, FALSE)
  ELSE DropResult("ok", "", copy_if(input, keys, drop_if), TRUE)

\* one call of cudf::drop_nulls on the tables
DropNulls ==
  /\ dn_out = NoCall
  /\ \E drop_if \in DropIf :
       dn_out' = [status |-> "called",
                  call   |-> [drop_if |-> drop_if],
                  result |-> drop_nulls(dn_input, dn_keys, drop_if)]
  /\ UNCHANGED <<dn_input, dn_keys, scanVars, convVars, work, javaVars, fi>>

(***************************************************************************)
(* cudf::strings::from_integers and to_integers.  A character is its byte  *)
(* value.  A strings column is [size, offsets, chars, nullable, valid,     *)
(* null_count]; element i (0-based) is chars[offsets[i] .. offsets[i+1]).  *)
(***************************************************************************)
CHAR_0     == 48   \* '0'
CHAR_9     == 57   \* '9'
CHAR_MINUS == 45   \* '-'
CHAR_PLUS  == 43   \* '+'
BASE       == 10

INT16_MAX == 32767
INT16_MIN == -32768

IntegerTypes == {"INT8", "INT16", "INT32"}

int_max(t)    == IF t = "INT8" THEN INT8_MAX
                 ELSE IF t = "INT16" THEN INT16_MAX ELSE INT32_MAX
int_lowest(t) == IF t = "INT8" THEN INT8_MIN
                 ELSE IF t = "INT16" THEN INT16_MIN ELSE (-INT32_MAX) - 1

\* static_cast<IntegerType>(v), two's complement
int_cast(v, t) ==
  IF v >= int_lowest(t) /\ v <= int_max(t) THEN v
  ELSE ((v - int_lowest(t)) % (int_max(t) - int_lowest(t) + 1)) + int_lowest(t)

RECURSIVE CountDigits(_)
CountDigits(value) ==
  IF value > 0 THEN 1 + CountDigits(value \div BASE) ELSE 0

\* integer_to_string_size_fn<IntegerType>::operator()(idx), idx 0-based
integer_to_string_size_fn_no_sign(col, idx) ==
  IF ~is_valid(col, idx + 1) THEN 0
  ELSE LET v == col.data[idx + 1]
       IN  IF v = 0 THEN 1
           ELSE LET sign  == v < 0
                    value == IF sign THEN int_cast(-v, col.type) ELSE v
                IN  CountDigits(value)
integer_to_string_size_fn(col, idx) ==
  IF ~is_valid(col, idx + 1) THEN 0
  ELSE LET v == col.data[idx + 1]
       IN  IF v = 0 THEN 1
           ELSE LET sign  == v < 0
                    value == IF sign THEN int_cast(-v, col.type) ELSE v
                IN  (IF sign THEN 1 ELSE 0) + CountDigits(value)

\* the digits of value, least significant first
RECURSIVE DigitsBackwards(_)
DigitsBackwards(value) ==
  IF value > 0
    THEN <<CHAR_0 + (value % BASE)>> \o DigitsBackwards(value \div BASE)
    ELSE <<>>

\* the reversal loop of integer_to_string_fn, j = 0 .. length/2 - 1
RECURSIVE ReverseFrom(_, _)
ReverseFrom(buf, j) ==
  IF j < Len(buf) \div 2
    THEN ReverseFrom([buf EXCEPT ![j + 1] = buf[Len(buf) - j],
                                 ![Len(buf) - j] = buf[j + 1]], j + 1)
    ELSE buf

\* the bytes integer_to_string_fn writes from d_buffer on for one element
integer_to_string_bytes(col, idx) ==
  IF ~is_valid(col, idx + 1) THEN <<>>
  ELSE LET v == col.data[idx + 1]
       IN  IF v = 0 THEN <<CHAR_0>>
           ELSE LET sign  == v < 0
                    value == IF sign THEN int_cast(-v, col.type) ELSE v
                    back  == DigitsBackwards(value)
                             \o (IF sign THEN <<CHAR_MINUS>> ELSE <<>>)
                IN  ReverseFrom(back, 0)

\* integer_to_string_fn<IntegerType>::operator()(idx): d_chars after the call.
\* A byte written past the end of the buffer is outside the column.
integer_to_string_fn(col, d_offsets, d_chars, idx) ==
  LET bytes == integer_to_string_bytes(col, idx)
      at    == d_offsets[idx + 1]
  IN  [j \in 1..Len(d_chars) |->
         IF at < j /\ j <= at + Len(bytes) THEN bytes[j - at] ELSE d_chars[j]]

\* detail::make_offsets_child_column(begin, end): exclusive prefix sum of the
\* sizes, with the total as last entry
RECURSIVE OffsetsFrom(_, _, _)
OffsetsFrom(col, idx, acc) ==
  IF idx >= size(col) THEN <<acc>>
  ELSE <<acc>> \o OffsetsFrom(col, idx + 1, acc + integer_to_string_size_fn(col, idx))

make_offsets_child_column(col) == OffsetsFrom(col, 0, 0)

\* thrust::for_each_n(0, strings_count, integer_to_string_fn{...})
RECURSIVE FillFrom(_, _, _, _)
FillFrom(col, d_offsets, d_chars, idx) ==
  IF idx >= size(col) THEN d_chars
  ELSE FillFrom(col, d_offsets, integer_to_string_fn(col, d_offsets, d_chars, idx), idx + 1)

StringsColumn(n, offsets, chars, nullable, valid, nc) ==
  [status |-> "ok", size |-> n, offsets |-> offsets, chars |-> chars,
   nullable |-> nullable, valid |-> valid, null_count |-> nc]

\* detail::make_empty_strings_column
make_empty_strings_column == StringsColumn(0, <<>>, <<>>, FALSE, <<>>, 0)

NoColumn(msg) ==
  [status |-> "error", error |-> msg]

\* dispatch_from_integers_fn::operator()<IntegerType>; the chars buffer is
\* allocated uninitialized: every byte holds `garbage`
dispatch_from_integers_fn(col, garbage) ==
  IF col.type \notin IntegerTypes
    THEN NoColumn("Values for from_integers function must be integral type.")
  ELSE LET strings_count == size(col)
           d_new_offsets == make_offsets_child_column(col)
           bytes         == d_new_offsets[strings_count + 1]
           d_chars       == [j \in 1..bytes |-> garbage]
       IN  StringsColumn(strings_count, d_new_offsets,
                         FillFrom(col, d_new_offsets, d_chars, 0),
                         col.nullable, col.valid, null_count(col))

\* cudf::strings::from_integers
from_integers(col, garbage) ==
  IF size(col) = 0 THEN make_empty_strings_column
  ELSE dispatch_from_integers_fn(col, garbage)

\* strings column accessors
str_is_null(strs, idx) == strs.nullable /\ ~strs.valid[idx + 1]
str_element(strs, idx) ==
  SubSeq(strs.chars, strs.offsets[idx + 1] + 1, strs.offsets[idx + 2])
\* the byte at the element's data pointer; past the buffer it is `beyond`
str_first_byte(strs, idx, beyond) ==
  IF strs.offsets[idx + 1] < Len(strs.chars)
    THEN strs.chars[strs.offsets[idx + 1] + 1]
    ELSE beyond

\* int64_t is four 16-bit limbs, least significant first, two's complement
LIMB == 65536
I64Zero == <<0, 0, 0, 0>>

\* (value * m) + a in int64_t, 0 <= m, a < LIMB; the carry out of the top
\* limb is dropped
I64MulAdd(value, m, a) ==
  LET t1 == (value[1] * m) + a
      t2 == (value[2] * m) + (t1 \div LIMB)
      t3 == (value[3] * m) + (t2 \div LIMB)
      t4 == (value[4] * m) + (t3 \div LIMB)
  IN  <<t1 % LIMB, t2 % LIMB, t3 % LIMB, t4 % LIMB>>

\* value * int64_t(-1)
I64Neg(value) ==
  LET n1 == (LIMB - 1 - value[1]) + 1
      n2 == (LIMB - 1 - value[2]) + (n1 \div LIMB)
      n3 == (LIMB - 1 - value[3]) + (n2 \div LIMB)
      n4 == (LIMB - 1 - value[4]) + (n3 \div LIMB)
  IN  <<n1 % LIMB, n2 % LIMB, n3 % LIMB, n4 % LIMB>>

\* static_cast<int32_t>(value): the low 32 bits, two's complement
I64ToInt32(value) ==
  IF value[2] >= LIMB \div 2
    THEN ((value[2] - LIMB) * LIMB) + value[1]
    ELSE (value[2] * LIMB) + value[1]

\* the digit loop of string_to_integer over the bytes left
RECURSIVE ParseDigits(_, _)
ParseDigits(s, value) ==
  IF s = <<>> THEN value
  ELSE IF Head(s) < CHAR_0 \/ Head(s) > CHAR_9 THEN value
  ELSE ParseDigits(Tail(s), I64MulAdd(value, BASE, Head(s) - CHAR_0))

\* string_to_integer(d_str); first is *ptr, read before the length is looked at
string_to_integer(d_str, first) ==
  IF first = CHAR_MINUS \/ first = CHAR_PLUS
    THEN LET rest == IF d_str = <<>> THEN <<>> ELSE Tail(d_str)
         IN  IF first = CHAR_MINUS THEN I64Neg(ParseDigits(rest, I64Zero))
                                   ELSE ParseDigits(rest, I64Zero)
    ELSE ParseDigits(d_str, I64Zero)

IntColumn(t, data, nullable, valid, nc) ==
  [status |-> "ok", type |-> t, data |-> data, nullable |-> nullable,
   valid |-> valid, null_count |-> nc]

\* cudf::strings::to_integers
to_integers_no_mask(strs, beyond) ==
  IF strs.size = 0 THEN IntColumn("INT32", <<>>, FALSE, <<>>, 0)
  ELSE IntColumn("INT32",
         [i \in 1..strs.size |->
            IF str_is_null(strs, i - 1) THEN 0
            ELSE I64ToInt32(string_to_integer(str_element(strs, i - 1),
                                              str_first_byte(strs, i - 1, beyond)))],
         FALSE, AllTrue(strs.size), 0)
to_integers(strs, beyond) ==
  IF strs.size = 0 THEN IntColumn("INT32", <<>>, FALSE, <<>>, 0)
  ELSE IntColumn("INT32",
         [i \in 1..strs.size |->
            IF str_is_null(strs, i - 1) THEN 0
            ELSE I64ToInt32(string_to_integer(str_element(strs, i - 1),
                                              str_first_byte(strs, i - 1, beyond)))],
         strs.nullable, strs.valid, strs.null_count)

\* the device work of to_integers and the stream each piece is issued on
to_integers_work(strs, stream) ==
  IF strs.size = 0 THEN {}
  ELSE { On("column_device_view::create", stream), On("results buffer", stream),
         On("transform", stream) }
       \cup (IF strs.nullable THEN {On("null mask copy", stream)} ELSE {})

\* the device work of dispatch_from_integers_fn: execpol is
\* rmm::exec_policy(0) and the fill runs on execpol->on(0)
dispatch_from_integers_work(col, stream) ==
  IF col.type \notin IntegerTypes THEN {}
  ELSE { On("column_device_view::create", stream),
         On("make_offsets_child_column", stream),
         On("create_chars_child_column", stream),
         On("for_each_n integer_to_string_fn", DEFAULT_STREAM),
         On("make_strings_column", stream) }
       \cup (IF col.nullable THEN {On("null mask copy", stream)} ELSE {})

\* the device work of from_integers
from_integers_work(col, stream) ==
  IF size(col) = 0 THEN {On("make_empty_strings_column", stream)}
  ELSE dispatch_from_integers_work(col, stream)

(***************************************************************************)
(* Inputs of from_integers.                                                *)
(***************************************************************************)
ConvInt8Values  == {-128, -7, 0, 123}
ConvInt16Values == {-32768, -100, 0, 32767}

ConvInt32Values == {-100000, 0, 123}

ConvValuesOf(t) == IF t = "INT8" THEN ConvInt8Values
                   ELSE IF t = "INT16" THEN ConvInt16Values
                   ELSE IF t = "INT32" THEN ConvInt32Values
                   ELSE {0}

ConvColumnsOf(t, n) ==
  UNION { { [type |-> t, data |-> d, nullable |-> FALSE, valid |-> AllTrue(Len(d))] }
          \cup { [type |-> t, data |-> d, nullable |-> TRUE, valid |-> v] :
                   v \in [1..Len(d) -> BOOLEAN] }
          : d \in SeqsUpTo(ConvValuesOf(t), n) }

ConvTypes == IntegerTypes \cup {"FLOAT64"}

GarbageBytes == {0, CHAR_MINUS}

\* from_integers on the integer column
FromIntegers ==
  /\ conv_pc = "init"
  /\ \E garbage \in GarbageBytes :
       strings' = from_integers(integers, garbage)
  /\ \E stream \in Streams :
       work' = Issued(stream, from_integers_work(integers, stream))
  /\ conv_pc' = "stringified"
  /\ UNCHANGED <<integers, results, scanVars, dropVars, javaVars, fi>>

\* to_integers on the strings column from_integers returned
ToIntegers ==
  /\ conv_pc \in {"stringified", "strings"}
  /\ strings.status = "ok"
  /\ \E beyond \in GarbageBytes :
       results' = to_integers(strings, beyond)
  /\ \E stream \in Streams :
       work' = Issued(stream, to_integers_work(strings, stream))
  /\ conv_pc' = "parsed"
  /\ UNCHANGED <<integers, strings, scanVars, dropVars, javaVars, fi>>

(***************************************************************************)
(* to_integers on any strings column: the elements are arbitrary byte      *)
(* strings, and a null element may own bytes.                              *)
(***************************************************************************)
MaxStrs == 2

\* "42", "-42", "+42", "42abc", "abc", "", "-", "007", "-0", "3000000000"
ParseStrings ==
  { <<52, 50>>, <<45, 52, 50>>, <<43, 52, 50>>, <<52, 50, 97, 98, 99>>,
    <<97, 98, 99>>, <<>>, <<45>>, <<48, 48, 55>>, <<45, 48>>,
    <<51, 48, 48, 48, 48, 48, 48, 48, 48, 48>> }

RECURSIVE Concat(_)
Concat(ss) == IF ss = <<>> THEN <<>> ELSE Head(ss) \o Concat(Tail(ss))

RECURSIVE OffsetsOf(_, _)
OffsetsOf(ss, acc) ==
  IF ss = <<>> THEN <<acc>> ELSE <<acc>> \o OffsetsOf(Tail(ss), acc + Len(Head(ss)))

\* the strings column holding the elements ss
StringsColumnOf(ss, nullable, valid) ==
  StringsColumn(Len(ss), IF ss = <<>> THEN <<>> ELSE OffsetsOf(ss, 0), Concat(ss),
                nullable, valid, CountFalse(valid))

StringsColumns ==
  UNION { { StringsColumnOf(ss, FALSE, AllTrue(Len(ss))) }
          \cup { StringsColumnOf(ss, TRUE, v) : v \in [1..Len(ss) -> BOOLEAN] }
          : ss \in SeqsUpTo(ParseStrings, MaxStrs) }

(***************************************************************************)
(* ParquetWriterOptions and its Builder.  An int[] reference is            *)
(* [isNull, values]; `given` is history: the argument of the last          *)
(* withDecimalPrecisions call, if there was one.                           *)
(***************************************************************************)
MaxPrecisions == 2

NullArray     == [isNull |-> TRUE, values |-> <<>>]
IntArray(vs)  == [isNull |-> FALSE, values |-> vs]
NeverGiven    == [called |-> FALSE, values |-> <<>>]

StatisticsFrequency == {"NONE", "ROWGROUP", "PAGE"}
PrecisionValues     == {9, 18}

\* new Builder()
NewBuilder ==
  [statsGranularity |-> "ROWGROUP", isTimestampTypeInt96 |-> FALSE,
   precisionValues |-> NullArray, given |-> NeverGiven]

NoOptions == [status |-> "none"]

\* new ParquetWriterOptions(builder)
ParquetWriterOptions(b) ==
  [status |-> "built", statsGranularity |-> b.statsGranularity,
   isTimestampTypeInt96 |-> b.isTimestampTypeInt96,
   precisions |-> b.precisionValues, given |-> b.given]

getPrecisions(o) == o.precisions

withStatisticsFrequency ==
  /\ \E statsGranularity \in StatisticsFrequency :
       builder' = [builder EXCEPT !.statsGranularity = statsGranularity]
  /\ UNCHANGED <<options, scanVars, dropVars, convVars, work, fi>>

withTimestampInt96 ==
  /\ \E int96 \in BOOLEAN :
       builder' = [builder EXCEPT !.isTimestampTypeInt96 = int96]
  /\ UNCHANGED <<options, scanVars, dropVars, convVars, work, fi>>

withDecimalPrecisions ==
  /\ \E precisionValues \in SeqsUpTo(PrecisionValues, MaxPrecisions) :
       builder' = [builder EXCEPT
                     !.precisionValues = IntArray(precisionValues),
                     !.given = [called |-> TRUE, values |-> precisionValues]]
  /\ UNCHANGED <<options, scanVars, dropVars, convVars, work, fi>>

build ==
  /\ options' = ParquetWriterOptions(builder)
  /\ UNCHANGED <<builder, scanVars, dropVars, convVars, work, fi>>

(***************************************************************************)
(* from_integers statement by statement.  fi.pc is the next statement of   *)
(* the call; the fill tasks of thrust::for_each_n run in any order.        *)
(* fi.allocs counts the allocations of the chars buffer, fi.writes[i] is   *)
(* the set of byte positions (from 1) task i - 1 wrote.                    *)
(***************************************************************************)
FiState(pc, col, garbage) ==
  [pc |-> pc, col |-> col, garbage |-> garbage, null_mask |-> <<>>,
   sizes |-> <<>>, offsets |-> <<>>, bytes |-> 0, chars |-> <<>>, allocs |-> 0,
   filled |-> {}, writes |-> [i \in 1..size(col) |-> {}], out |-> NoCall]

FiIdle == FiState("idle", [type |-> "INT8", data |-> <<>>, nullable |-> FALSE,
                           valid |-> <<>>], 0)

\* the byte positions integer_to_string_fn writes for one element
integer_to_string_writes(col, d_offsets, idx) ==
  { d_offsets[idx + 1] + k : k \in 1..Len(integer_to_string_bytes(col, idx)) }

\* size_type bytes = thrust::device_pointer_cast(d_new_offsets)[strings_count]
chars_bytes_short(d_new_offsets, strings_count) == d_new_offsets[strings_count]
chars_bytes(d_new_offsets, strings_count) == d_new_offsets[strings_count + 1]

\* detail::create_chars_child_column: one uninitialized buffer of `bytes` bytes
create_chars_child_column(bytes, garbage) == [j \in 1..bytes |-> garbage]

\* from_integers up to the type dispatch
FiCall ==
  /\ fi.pc = "call"
  /\ fi' = IF size(fi.col) = 0
             THEN [fi EXCEPT !.pc = "done", !.out = make_empty_strings_column]
           ELSE IF fi.col.type \notin IntegerTypes
             THEN [fi EXCEPT !.pc = "done", !.out =
                     NoColumn("Values for from_integers function must be integral type.")]
           ELSE [fi EXCEPT !.pc = "null_mask"]
  /\ UNCHANGED <<scanVars, dropVars, convVars, work, javaVars>>

\* copy the null mask
FiCopyNullMask ==
  /\ fi.pc = "null_mask"
  /\ fi' = [fi EXCEPT !.pc = "offsets",
                      !.null_mask = IF fi.col.nullable THEN fi.col.valid ELSE <<>>]
  /\ UNCHANGED <<scanVars, dropVars, convVars, work, javaVars>>

\* build offsets column: the sizes, then their exclusive prefix sum
FiMakeOffsets ==
  /\ fi.pc = "offsets"
  /\ fi' = [fi EXCEPT !.pc = "chars",
                      !.sizes = [i \in 1..size(fi.col) |->
                                   integer_to_string_size_fn(fi.col, i - 1)],
                      !.offsets = make_offsets_child_column(fi.col)]
  /\ UNCHANGED <<scanVars, dropVars, convVars, work, javaVars>>

\* build chars column
FiCreateChars ==
  /\ fi.pc = "chars"
  /\ LET bytes == chars_bytes(fi.offsets, size(fi.col))
     IN  fi' = [fi EXCEPT !.pc = "fill",
                          !.bytes = bytes,
                          !.chars = create_chars_child_column(bytes, fi.garbage),
                          !.allocs = fi.allocs + 1]
  /\ UNCHANGED <<scanVars, dropVars, convVars, work, javaVars>>

\* one task of thrust::for_each_n(..., integer_to_string_fn{...})
FiFill ==
  /\ fi.pc = "fill"
  /\ \E idx \in (0..(size(fi.col) - 1)) \ fi.filled :
       fi' = [fi EXCEPT
                !.chars = integer_to_string_fn(fi.col, fi.offsets, fi.chars, idx),
                !.writes[idx + 1] = integer_to_string_writes(fi.col, fi.offsets, idx),
                !.filled = fi.filled \cup {idx}]
  /\ UNCHANGED <<scanVars, dropVars, convVars, work, javaVars>>

\* for_each_n has returned: make_strings_column
FiMakeStrings ==
  /\ fi.pc = "fill"
  /\ fi.filled = 0..(size(fi.col) - 1)
  /\ fi' = [fi EXCEPT !.pc = "done",
                      !.out = StringsColumn(size(fi.col), fi.offsets, fi.chars,
                                            fi.col.nullable, fi.col.valid,
                                            null_count(fi.col))]
  /\ UNCHANGED <<scanVars, dropVars, convVars, work, javaVars>>

(***************************************************************************)
(* Specifications: one per operation family.                               *)
(***************************************************************************)
ScanIdle == scan_out = NoCall
DropIdle == /\ dn_input = <<>>
            /\ dn_keys = [num_rows |-> 0, cols |-> <<>>]
            /\ dn_out = NoCall
ConvIdle == /\ integers = [type |-> "INT8", data |-> <<>>, nullable |-> FALSE, valid |-> <<>>]
            /\ strings = NoCall
            /\ results = NoCall
            /\ conv_pc = "idle"
JavaIdle == builder = NewBuilder /\ options = NoOptions
StepIdle == fi = FiIdle
OtherIdle == work = NoWork /\ JavaIdle /\ StepIdle

InitScan ==
  /\ \E t \in Types : in_col \in ColumnsOf(t, MaxLen)
  /\ ScanIdle
  /\ DropIdle
  /\ ConvIdle
  /\ OtherIdle

NextScan == Scan

SpecScan == InitScan /\ [][NextScan]_vars

InitDropNulls ==
  /\ dn_input \in SeqsUpTo(RowValues, MaxRows)
  /\ dn_keys \in KeyTables
  /\ dn_out = NoCall
  /\ in_col = [type |-> "INT8", data |-> <<>>, nullable |-> FALSE, valid |-> <<>>]
  /\ ScanIdle
  /\ ConvIdle
  /\ OtherIdle

NextDropNulls == DropNulls

SpecDropNulls == InitDropNulls /\ [][NextDropNulls]_vars

InitConvert ==
  /\ \E t \in ConvTypes : integers \in ConvColumnsOf(t, MaxInts)
  /\ strings = NoCall
  /\ results = NoCall
  /\ conv_pc = "init"
  /\ in_col = [type |-> "INT8", data |-> <<>>, nullable |-> FALSE, valid |-> <<>>]
  /\ ScanIdle
  /\ DropIdle
  /\ OtherIdle

NextConvert == FromIntegers \/ ToIntegers

SpecConvert == InitConvert /\ [][NextConvert]_vars

EmptyInput == [type |-> "INT8", data |-> <<>>, nullable |-> FALSE, valid |-> <<>>]

\* to_integers on any strings column
InitParse ==
  /\ strings \in StringsColumns
  /\ integers = EmptyInput
  /\ results = NoCall
  /\ conv_pc = "strings"
  /\ in_col = EmptyInput
  /\ ScanIdle
  /\ DropIdle
  /\ OtherIdle

NextParse == ToIntegers

SpecParse == InitParse /\ [][NextParse]_vars

\* scan, from_integers and to_integers, each called on some stream
InitStreams == InitScan \/ InitConvert \/ InitParse

NextStreams == Scan \/ FromIntegers \/ ToIntegers

SpecStreams == InitStreams /\ [][NextStreams]_vars

\* ParquetWriterOptions.builder() and the calls on the Builder
InitParquet ==
  /\ builder = NewBuilder
  /\ options = NoOptions
  /\ work = NoWork
  /\ StepIdle
  /\ in_col = EmptyInput
  /\ ScanIdle
  /\ DropIdle
  /\ ConvIdle

NextParquet ==
  withStatisticsFrequency \/ withTimestampInt96 \/ withDecimalPrecisions \/ build

SpecParquet == InitParquet /\ [][NextParquet]_vars

\* one call of from_integers, statement by statement
InitFromIntegers ==
  /\ \E t \in ConvTypes, garbage \in GarbageBytes :
       \E col \in ConvColumnsOf(t, MaxInts) : fi = FiState("call", col, garbage)
  /\ work = NoWork
  /\ JavaIdle
  /\ in_col = EmptyInput
  /\ ScanIdle
  /\ DropIdle
  /\ ConvIdle

NextFromIntegers ==
  FiCall \/ FiCopyNullMask \/ FiMakeOffsets \/ FiCreateChars \/ FiFill \/ FiMakeStrings

SpecFromIntegers == InitFromIntegers /\ [][NextFromIntegers]_vars

(***************************************************************************)
(* Properties of scan, checked under SpecScan.                             *)
(***************************************************************************)
ScanCalled == scan_out # NoCall
ScanOk     == ScanCalled /\ scan_out.result.status = "ok"
NumericInput == is_arithmetic(dispatch_storage_type(in_col.type))

\* input[i] as the claims read it: a null counts as the operator's identity
InputOrIdentity(op, i) ==
  IF is_valid(in_col, i) THEN in_col.data[i]
  ELSE identity(op, dispatch_storage_type(in_col.type))

\* the other scan of the same input, operator and null policy
OtherScan(inclusive) ==
  scan(in_col, scan_out.call.agg, inclusive, scan_out.call.null_handling, FALSE)

\* C1: for a numeric column, Sum, Min or Max and either null policy,
\* inclusive_scan[i] = op(exclusive_scan[i], input[i]) at every position i,
\* a null input[i] counting as the identity of the operator.
C1_InclusiveIsExclusivePlusInput ==
  (ScanOk /\ NumericInput /\ scan_out.call.agg \in {"SUM", "MIN", "MAX"}) =>
    LET op  == scan_out.call.agg
        T   == dispatch_storage_type(in_col.type)
        inc == IF scan_out.call.inclusive = "INCLUSIVE"
                 THEN scan_out.result ELSE OtherScan("INCLUSIVE")
        exc == IF scan_out.call.inclusive = "EXCLUSIVE"
                 THEN scan_out.result ELSE OtherScan("EXCLUSIVE")
    IN  /\ inc.status = "ok" /\ exc.status = "ok"
        /\ Len(inc.data) = size(in_col) /\ Len(exc.data) = size(in_col)
        /\ \A i \in 1..size(in_col) :
             inc.data[i] = Apply(op, T, exc.data[i], InputOrIdentity(op, i))

\* an inclusive Sum over int8 that wrapped around, with a null in the input
C1_Witness ==
  /\ ScanOk /\ in_col.type = "INT8" /\ has_nulls(in_col) /\ size(in_col) >= 2
  /\ scan_out.call.agg = "SUM" /\ scan_out.call.inclusive = "INCLUSIVE"
  /\ is_valid(in_col, 1) /\ is_valid(in_col, 2)
  /\ in_col.data[1] > 0 /\ in_col.data[2] > 0
  /\ scan_out.result.data[2] < 0

\* the reduction of s by op, folded from the right
RECURSIVE ReduceRight(_, _, _)
ReduceRight(s, op, T) ==
  IF s = <<>>
    THEN (CASE op = "SUM" -> 0
            [] op = "PRODUCT" -> 1
            [] op = "MIN" -> numeric_max(T)
            [] op = "MAX" -> numeric_lowest(T))
    ELSE Apply(op, T, Head(s), ReduceRight(Tail(s), op, T))

\* C2: an exclusive scan of a numeric column writes identity(op) at position
\* 0 and at position i the reduction of input[0..i-1] with every null
\* replaced by identity(op), under INCLUDE and under EXCLUDE.
C2_ExclusiveScanValues ==
  (ScanCalled /\ NumericInput /\ scan_out.call.inclusive = "EXCLUSIVE"
     /\ scan_out.call.agg \in Ops
     /\ ~(scan_out.call.agg = "PRODUCT" /\ is_fixed_point(in_col.type))) =>
    LET op   == scan_out.call.agg
        T    == dispatch_storage_type(in_col.type)
        repl == [i \in 1..size(in_col) |-> InputOrIdentity(op, i)]
        out  == scan_out.result
    IN  /\ out.status = "ok"
        /\ Len(out.data) = size(in_col)
        /\ \A i \in 1..size(in_col) :
             out.data[i] = ReduceRight(SubSeq(repl, 1, i - 1), op, T)

\* an exclusive Product whose input has a null before its last position
C2_Witness ==
  /\ ScanOk /\ in_col.type = "INT8" /\ size(in_col) >= 3
  /\ scan_out.call.agg = "PRODUCT" /\ scan_out.call.inclusive = "EXCLUSIVE"
  /\ ~is_valid(in_col, 2) /\ in_col.data[2] # 1
  /\ scan_out.result.data[3] = in_col.data[1]

\* index of the first null of the input, size when there is none (0-based)
FirstNull ==
  IF \E i \in 1..size(in_col) : ~is_valid(in_col, i)
    THEN (CHOOSE i \in 1..size(in_col) :
            ~is_valid(in_col, i) /\ \A j \in 1..(i - 1) : is_valid(in_col, j)) - 1
    ELSE size(in_col)

\* C3: an inclusive scan under INCLUDE returns a column that is valid at the
\* positions before the first null of the input and null from there on.
C3_InclusiveIncludeMask ==
  (ScanOk /\ scan_out.call.inclusive = "INCLUSIVE"
     /\ scan_out.call.null_handling = "INCLUDE") =>
    LET out == scan_out.result
    IN  /\ Len(out.data) = size(in_col)
        /\ \A i \in 1..size(in_col) : out_valid(out, i) <=> (i - 1 < FirstNull)
        /\ (FirstNull = size(in_col) => column_null_count(out) = 0)

\* the input has a null that is followed by a valid element
C3_Witness ==
  /\ ScanOk /\ scan_out.call.inclusive = "INCLUSIVE"
  /\ scan_out.call.null_handling = "INCLUDE"
  /\ size(in_col) >= 3
  /\ is_valid(in_col, 1) /\ ~is_valid(in_col, 2) /\ is_valid(in_col, 3)
  /\ ~out_valid(scan_out.result, 3)

\* the calls that scan supports
Supported ==
  /\ ScanCalled
  /\ scan_out.call.agg \in Ops
  /\ \/ /\ is_numeric(in_col.type)
     \/ /\ is_fixed_point(in_col.type) /\ scan_out.call.agg # "PRODUCT"
     \/ /\ in_col.type = "STRING" /\ scan_out.call.agg \in {"MIN", "MAX"}
        /\ scan_out.call.inclusive = "INCLUSIVE"

\* C4: under EXCLUDE every supported scan, inclusive or exclusive, returns a
\* column whose validity equals the input's at every position and whose null
\* count is the input's; the null-count check of the dispatcher never fails.
C4_ExcludeKeepsMask ==
  (Supported /\ scan_out.call.null_handling = "EXCLUDE") =>
    LET out == scan_out.result
    IN  /\ out.status = "ok"
        /\ Len(out.data) = size(in_col)
        /\ out.nullable = in_col.nullable
        /\ \A i \in 1..size(in_col) : out_valid(out, i) <=> is_valid(in_col, i)
        /\ column_null_count(out) = null_count(in_col)

\* an exclusive scan under EXCLUDE of an input with nulls
C4_Witness ==
  /\ ScanOk /\ scan_out.call.null_handling = "EXCLUDE"
  /\ scan_out.call.inclusive = "EXCLUSIVE"
  /\ null_count(in_col) >= 1 /\ null_count(in_col) < size(in_col)
  /\ column_null_count(scan_out.result) = null_count(in_col)

\* C5: a Product scan of a fixed-point column fails, whatever the input, the
\* null policy and the inclusivity, before type dispatch, before any
\* allocation and before any scan; no column is returned.
C5_ProductOnDecimalFails ==
  (ScanCalled /\ is_fixed_point(in_col.type) /\ scan_out.call.agg = "PRODUCT") =>
    /\ scan_out.result.status = "error"
    /\ ~scan_out.result.dispatched
    /\ ~scan_out.result.allocated
    /\ ~scan_out.result.scanned
    /\ scan_out.result.data = <<>>

\* a Product scan of a decimal column that has elements
C5_Witness ==
  /\ ScanCalled /\ in_col.type = "DECIMAL32" /\ size(in_col) >= 2
  /\ scan_out.call.agg = "PRODUCT"
  /\ scan_out.result.error = "decimal32/64 cannot support product scan"

\* C6: on a string column scan succeeds only when it is inclusive with Min
\* or Max; Sum, Product and every exclusive scan end in an error.
C6_StringOnlyInclusiveMinMax ==
  (ScanCalled /\ in_col.type = "STRING") =>
    /\ (scan_out.call.agg \in {"SUM", "PRODUCT"}
          => scan_out.result.status = "error")
    /\ (scan_out.call.inclusive = "EXCLUSIVE"
          => scan_out.result.status = "error")
    /\ (scan_out.result.status = "ok"
          => /\ scan_out.call.inclusive = "INCLUSIVE"
             /\ scan_out.call.agg \in {"MIN", "MAX"})
    /\ (scan_out.result.status = "error"
          => scan_out.result.data = <<>> /\ ~scan_out.result.scanned)

\* an exclusive Min on a string column that has elements
C6_Witness ==
  /\ ScanCalled /\ in_col.type = "STRING" /\ size(in_col) >= 1
  /\ scan_out.call.agg = "MIN" /\ scan_out.call.inclusive = "EXCLUSIVE"
  /\ scan_out.result.status = "error"

(***************************************************************************)
(* Properties of drop_nulls, checked under SpecDropNulls.                  *)
(***************************************************************************)
DropCalled == dn_out # NoCall
DropOk     == DropCalled /\ dn_out.result.status = "ok"

\* key column c is null at row i (0-based): a column without a mask has no
\* null, and there is no null where the key column has no row
KeyIsNull(c, i) ==
  /\ dn_keys.cols[c].nullable
  /\ i < dn_keys.num_rows
  /\ ~dn_keys.cols[c].mask[i + 1]

KeysHaveNull ==
  \E c \in 1..num_columns(dn_keys) : \E i \in 0..(dn_keys.num_rows - 1) : KeyIsNull(c, i)

\* the rule of the claim for row i of the input
KeepRow(drop_if, i) ==
  IF drop_if = "ANY"
    THEN \A c \in 1..num_columns(dn_keys) : ~KeyIsNull(c, i)
    ELSE \E c \in 1..num_columns(dn_keys) : ~KeyIsNull(c, i)

RECURSIVE KeptRowsFrom(_, _)
KeptRowsFrom(drop_if, i) ==
  IF i >= Len(dn_input) THEN <<>>
  ELSE (IF KeepRow(drop_if, i) THEN <<dn_input[i + 1]>> ELSE <<>>)
         \o KeptRowsFrom(drop_if, i + 1)

\* C7: when the key table has a null, the table drop_nulls returns holds, in
\* their original order, exactly the rows of the input in which every key
\* column is valid (drop_if = ANY), or at least one is (drop_if = ALL).
C7_KeepsRowsByKeyValidity ==
  (DropOk /\ KeysHaveNull) =>
    dn_out.result.rows = KeptRowsFrom(dn_out.call.drop_if, 0)

\* C8: with a key table of no columns, no rows or no null, drop_nulls returns
\* the rows of the input unchanged and in order, for ANY and for ALL, and
\* builds no row filter.
C8_NoNullsReturnsCopy ==
  (DropCalled /\ (num_columns(dn_keys) = 0 \/ dn_keys.num_rows = 0 \/ ~KeysHaveNull)) =>
    /\ dn_out.result.status = "ok"
    /\ dn_out.result.rows = dn_input
    /\ ~dn_out.result.filter_built

\* a key table with a nullable column, rows and no null, on a non-empty input
C8_Witness ==
  /\ DropOk /\ ~KeysHaveNull
  /\ num_columns(dn_keys) >= 1 /\ dn_keys.num_rows >= 1 /\ Len(dn_input) >= 2
  /\ \E c \in 1..num_columns(dn_keys) : dn_keys.cols[c].nullable
  /\ dn_out.result.rows = dn_input

\* C9 as stated: every call whose key table has more rows than the input
\* fails with the size-mismatch error, whatever the nulls of the key table.
C9_LongerKeysAlwaysFail ==
  (DropCalled /\ dn_keys.num_rows > Len(dn_input)) =>
    /\ dn_out.result.status = "error"
    /\ dn_out.result.error = "Column size mismatch"

\* C9 amended: every call whose key table has a null and more rows than the
\* input fails with the size-mismatch error and returns no table, for ANY and
\* for ALL; a longer key table without a null gives a copy of the input.
C9_LongerKeysWithNullFail ==
  (DropCalled /\ dn_keys.num_rows > Len(dn_input)) =>
    IF KeysHaveNull
      THEN /\ dn_out.result.status = "error"
           /\ dn_out.result.error = "Column size mismatch"
           /\ dn_out.result.rows = <<>>
           /\ ~dn_out.result.filter_built
      ELSE /\ dn_out.result.status = "ok"
           /\ dn_out.result.rows = dn_input

\* a key table with a null and more rows than a non-empty input
C9_Witness ==
  /\ DropCalled /\ KeysHaveNull
  /\ Len(dn_input) >= 1 /\ dn_keys.num_rows > Len(dn_input)
  /\ dn_out.result.status = "error"

(***************************************************************************)
(* Properties of the conversions, checked under SpecConvert.               *)
(***************************************************************************)
\* C10: to_integers(from_integers(x)) has the length of x, is null exactly
\* where x is null and equals x at every other position, for every integer
\* column x, the most negative value of its width included.
C10_RoundTrip ==
  (conv_pc = "parsed" /\ integers.type \in IntegerTypes) =>
    /\ results.status = "ok"
    /\ Len(results.data) = size(integers)
    /\ \A i \in 1..size(integers) :
         /\ (results.nullable /\ ~results.valid[i]) <=> ~is_valid(integers, i)
         /\ is_valid(integers, i) => results.data[i] = integers.data[i]


(***************************************************************************)
(* Properties of from_integers and to_integers.                            *)
(***************************************************************************)
\* the base-10 text of an integer, most significant digit first
RECURSIVE DecimalDigits(_)
DecimalDigits(n) ==
  IF n < 10 THEN <<48 + n>> ELSE DecimalDigits(n \div 10) \o <<48 + (n % 10)>>

DecimalText(v) == IF v < 0 THEN <<45>> \o DecimalDigits(-v) ELSE DecimalDigits(v)

Stringified == conv_pc \in {"stringified", "parsed"} /\ strings.status = "ok"

\* C11: from_integers renders every non-null integer as its exact base-10
\* text ("0" for zero, the digits of the magnitude without leading zero,
\* '-' in front of a negative value), the element's length in the offsets
\* is the length of that text, and a null element has length 0.
C11_ExactDecimalText ==
  Stringified =>
    /\ strings.size = size(integers)
    /\ \A i \in 1..size(integers) :
         IF is_valid(integers, i)
           THEN /\ str_element(strings, i - 1) = DecimalText(integers.data[i])
                /\ strings.offsets[i + 1] - strings.offsets[i]
                     = Len(DecimalText(integers.data[i]))
           ELSE strings.offsets[i + 1] - strings.offsets[i] = 0

Parsed == conv_pc = "parsed" /\ results.status = "ok"

IsDigit(c) == c >= 48 /\ c <= 57

\* the longest run of decimal digits s starts with
RECURSIVE DigitRun(_)
DigitRun(s) ==
  IF s = <<>> \/ ~IsDigit(Head(s)) THEN <<>> ELSE <<Head(s)>> \o DigitRun(Tail(s))

HasSign(s) == s # <<>> /\ Head(s) \in {43, 45}

RECURSIVE StripZeros(_)
StripZeros(d) ==
  IF d = <<>> THEN <<48>>
  ELSE IF Head(d) = 48 THEN StripZeros(Tail(d)) ELSE d

\* the text of the signed value of the digit run after the optional sign
SignedRunText(s) ==
  LET run == StripZeros(DigitRun(IF HasSign(s) THEN Tail(s) ELSE s))
  IN  IF HasSign(s) /\ Head(s) = 45 /\ run # <<48>> THEN <<45>> \o run ELSE run

\* C12: to_integers never fails, and every non-null string yields the signed
\* value of the longest run of decimal digits that follows its optional
\* single leading sign, 0 when that run is empty.
C12_ParsesSignedDigitRun ==
  (conv_pc = "parsed") =>
    /\ results.status = "ok"
    /\ \A i \in 1..strings.size :
         ~str_is_null(strings, i - 1) =>
           DecimalText(results.data[i]) = SignedRunText(str_element(strings, i - 1))

ResultIsNull(i) == results.nullable /\ ~results.valid[i]

\* C13: to_integers returns a column as long as its input, element i is null
\* exactly when string i is null, and the null count is the input's.
C13_NullsPreserved ==
  Parsed =>
    /\ Len(results.data) = strings.size
    /\ \A i \in 1..strings.size : ResultIsNull(i) <=> str_is_null(strings, i - 1)
    /\ results.null_count = strings.null_count
    /\ results.null_count = Cardinality({i \in 1..strings.size : ResultIsNull(i)})

\* a two-element column whose null element owns bytes that parse to non-zero
C13_Witness ==
  /\ Parsed
  /\ strings.size = 2
  /\ str_is_null(strings, 0) /\ str_element(strings, 0) = <<52, 50>>
  /\ ~str_is_null(strings, 1) /\ results.data[2] = -42
  /\ ResultIsNull(1) /\ results.data[1] = 0

(***************************************************************************)
(* Properties of ParquetWriterOptions.                                     *)
(***************************************************************************)
\* C14: getPrecisions() returns the values given to withDecimalPrecisions
\* when it was called, and an empty, non-null array when it never was.
C14_PrecisionsOrEmptyArray ==
  (options.status = "built") =>
    IF options.given.called
      THEN getPrecisions(options) = IntArray(options.given.values)
      ELSE getPrecisions(options) = IntArray(<<>>)

(***************************************************************************)
(* Properties of one from_integers call, statement by statement.           *)
(***************************************************************************)
RECURSIVE SumTo(_, _)
SumTo(f, n) == IF n = 0 THEN 0 ELSE f[n] + SumTo(f, n - 1)

FiN == size(fi.col)
FiOffsetsBuilt == fi.pc \in {"chars", "fill"} \/ (fi.pc = "done" /\ fi.out.status = "ok" /\ FiN > 0)
FiAllocated    == fi.pc = "fill" \/ (fi.pc = "done" /\ fi.out.status = "ok" /\ FiN > 0)

\* C15: the sizes come first, the offsets are their exclusive prefix sum
\* (offsets[0] = 0, non-decreasing, offsets[N] = total bytes), the chars
\* buffer is allocated once, with exactly offsets[N] bytes, before any fill
\* task runs, and it keeps that length.
C15_SizesOffsetsAllocThenFill ==
  /\ fi.allocs <= 1
  /\ (fi.filled # {}) => fi.allocs = 1
  /\ (fi.allocs = 1) => FiOffsetsBuilt
  /\ FiOffsetsBuilt =>
       /\ Len(fi.sizes) = FiN /\ Len(fi.offsets) = FiN + 1
       /\ fi.offsets[1] = 0
       /\ \A k \in 1..FiN : /\ fi.offsets[k] <= fi.offsets[k + 1]
                            /\ fi.offsets[k + 1] = SumTo(fi.sizes, k)
  /\ FiAllocated =>
       /\ fi.allocs = 1
       /\ Len(fi.chars) = fi.offsets[FiN + 1]
       /\ Len(fi.chars) = SumTo(fi.sizes, FiN)
  /\ (fi.pc = "done" /\ fi.out.status = "ok" /\ FiN > 0) =>
       /\ fi.filled = 0..(FiN - 1)
       /\ Len(fi.out.chars) = fi.out.offsets[FiN + 1]

\* a finished call on two non-null elements of different lengths
C15_Witness ==
  /\ fi.pc = "done" /\ fi.out.status = "ok"
  /\ FiN = 2 /\ fi.allocs = 1 /\ fi.filled = {0, 1}
  /\ fi.sizes[1] = 2 /\ fi.sizes[2] = 3

\* C17: each fill task writes exactly as many bytes as the size functor
\* returned for its element, all of them in [offsets[i], offsets[i+1]); no
\* two tasks write the same byte, none writes past the end of the buffer,
\* and the bytes in the buffer do not depend on the order of the tasks.
C17_FillStaysInOwnRange ==
  (fi.pc \in {"fill", "done"} /\ FiN > 0 /\ fi.col.type \in IntegerTypes) =>
    /\ \A idx \in fi.filled :
         /\ Cardinality(fi.writes[idx + 1]) = integer_to_string_size_fn(fi.col, idx)
         /\ fi.writes[idx + 1] = (fi.offsets[idx + 1] + 1)..fi.offsets[idx + 2]
         /\ fi.writes[idx + 1] \subseteq 1..Len(fi.chars)
         /\ \A other \in fi.filled \ {idx} :
              fi.writes[idx + 1] \cap fi.writes[other + 1] = {}
    /\ \A idx \in 0..(FiN - 1) :
         SubSeq(fi.chars, fi.offsets[idx + 1] + 1, fi.offsets[idx + 2])
           = IF idx \in fi.filled
               THEN integer_to_string_bytes(fi.col, idx)
               ELSE [j \in 1..(fi.offsets[idx + 2] - fi.offsets[idx + 1]) |-> fi.garbage]
    /\ (fi.pc = "done") =>
         fi.chars = FillFrom(fi.col, fi.offsets,
                             create_chars_child_column(fi.bytes, fi.garbage), 0)

\* the second task ran first, on the most negative value next to a zero
C17_Witness ==
  /\ fi.pc = "fill" /\ FiN = 2 /\ fi.filled = {1}
  /\ fi.col.data[1] = 0 /\ is_valid(fi.col, 1)
  /\ fi.col.data[2] = int_lowest(fi.col.type) /\ is_valid(fi.col, 2)
  /\ fi.writes[2] # {}

(***************************************************************************)
(* Streams.                                                                *)
(***************************************************************************)
\* C16: every piece of device work a call of scan, from_integers or
\* to_integers issues is issued on the stream the caller passed.
C16_AllWorkOnCallerStream ==
  \A w \in work.issued : w.stream = work.stream

====
